---- MODULE Spec2Model ----
(***************************************************************************)
(* Model of src/chat.py: the turn scheduler of main(), the action grammar  *)
(* of possible_next_actions, the forced-travel override of                 *)
(* Agent.produce_next_action, the pre-checks of Supervisor.validate_action *)
(* and the state propagation of Agent.receive_action.                      *)
(*                                                                         *)
(* Python strings are TLA+ strings; str.lower, str.upper, str.strip and    *)
(* the `in` substring test are computed character by character.  The two   *)
(* oracles (the ollama chat calls) are nondeterministic choices over       *)
(* bounded sets of answers.                                                *)
(***************************************************************************)
EXTENDS Integers, Sequences, FiniteSets, TLC

\* ------------------------------------------------------------------ strings

UpperLetters == "ABCDEFGHIJKLMNOPQRSTUVWXYZ"
LowerLetters == "abcdefghijklmnopqrstuvwxyz"

CharAt(s, i) == SubSeq(s, i, i)

LetterIndex(alphabet, c) ==
    IF \E i \in 1..Len(alphabet) : CharAt(alphabet, i) = c
    THEN CHOOSE i \in 1..Len(alphabet) : CharAt(alphabet, i) = c
    ELSE 0

lower_char(c) ==
    IF LetterIndex(UpperLetters, c) = 0 THEN c
    ELSE CharAt(LowerLetters, LetterIndex(UpperLetters, c))

upper_char(c) ==
    IF LetterIndex(LowerLetters, c) = 0 THEN c
    ELSE CharAt(UpperLetters, LetterIndex(LowerLetters, c))

RECURSIVE lower_of(_)
lower_of(s) ==
    IF Len(s) = 0 THEN ""
    ELSE lower_char(CharAt(s, 1)) \o lower_of(SubSeq(s, 2, Len(s)))

RECURSIVE upper_of(_)
upper_of(s) ==
    IF Len(s) = 0 THEN ""
    ELSE upper_char(CharAt(s, 1)) \o upper_of(SubSeq(s, 2, Len(s)))

RECURSIVE lstrip(_)
lstrip(s) ==
    IF Len(s) = 0 THEN ""
    ELSE IF CharAt(s, 1) = " " THEN lstrip(SubSeq(s, 2, Len(s)))
    ELSE s

RECURSIVE rstrip(_)
rstrip(s) ==
    IF Len(s) = 0 THEN ""
    ELSE IF CharAt(s, Len(s)) = " " THEN rstrip(SubSeq(s, 1, Len(s) - 1))
    ELSE s

strip_of(s) == rstrip(lstrip(s))

\* Python's `sub in s` on strings.
contains(s, sub) ==
    \E i \in 1..(Len(s) - Len(sub) + 1) : SubSeq(s, i, i + Len(sub) - 1) = sub

intention_phrases ==
    <<"going to", "will check", "will go", "plan to", "intend to", "about to",
      "planning to">>

\* The phrase test without lower-casing the message.
states_intention_case_sensitive(message) ==
    \E i \in 1..Len(intention_phrases) : contains(message, intention_phrases[i])

\* any(phrase in message.lower() for phrase in intention_phrases)
states_intention_of(message) ==
    \E i \in 1..Len(intention_phrases) :
        contains(lower_of(message), intention_phrases[i])

\* The strings the oracles and the seed use.  Their conversions are computed
\* once, by the operators above, and looked up afterwards.
MsgPlain == "I found the sword in the field"
MsgIntent == "I am Going To check the field"
MsgIntentLower == "I am going to check the field"
MsgPlanToday == "The plan today is fine"
MsgBlank == "  "

KnownStrings ==
    {"", "<None>", MsgPlain, MsgIntent, MsgIntentLower, MsgPlanToday, MsgBlank,
     "city", "City", "CITY", "field", "Field", "FIELD", "cave", "CAVE",
     "Seeker", "seeker", "SEEKER", "Knower", "knower", "KNOWER",
     "Sword", "Stone"}

LowerMemo == [s \in KnownStrings |-> lower_of(s)]
UpperMemo == [s \in KnownStrings |-> upper_of(s)]
StripMemo == [s \in KnownStrings |-> strip_of(s)]
IntentionMemo == [s \in KnownStrings |-> states_intention_of(s)]

\* str.lower()
lower(s) == IF s \in KnownStrings THEN LowerMemo[s] ELSE lower_of(s)

\* str.upper()
upper(s) == IF s \in KnownStrings THEN UpperMemo[s] ELSE upper_of(s)

\* str.strip()
strip(s) == IF s \in KnownStrings THEN StripMemo[s] ELSE strip_of(s)

states_intention(message) ==
    IF message \in KnownStrings THEN IntentionMemo[message]
    ELSE states_intention_of(message)

\* --------------------------------------------------------------- data model

MAX_CONSECUTIVE_TURNS == 3

\* Python's None, where a string is expected.
NONE == "<None>"

ItemTypes == {"Sword", "Stone"}

\* Knowledge(knowledge=Location(of=Item(item=...), location=...))
Knowledge(item_type, location) == [of |-> item_type, location |-> location]

SeekMotivation(item_type) == [motivation_name |-> "Seek item", item |-> item_type]
BeHelpfulMotivation == [motivation_name |-> "Be helpful", item |-> NONE]

isSeek(motivation) == motivation.motivation_name = "Seek item"

\* An action object: the fields of DialogueAction, TravelAction and
\* SearchAction side by side; a field the variant does not have holds
\* NONE, FALSE or the empty list.  `knowledge` is a list of at most one
\* Knowledge (empty: None).
Action(type, message, agent_to_talk_to, end_turn, location, item_type, is_question, knowledge, knowledge_desired) ==
    [type |-> type, message |-> message, agent_to_talk_to |-> agent_to_talk_to,
     end_turn |-> end_turn, location |-> location, item_type |-> item_type,
     is_question |-> is_question, knowledge |-> knowledge,
     knowledge_desired |-> knowledge_desired]

DialogueAction(agent_to_talk_to, message, is_question, knowledge, knowledge_desired, end_turn) ==
    Action("dialogue_action", message, agent_to_talk_to, end_turn, NONE, NONE,
           is_question, knowledge, knowledge_desired)

TravelAction(location, agent_to_talk_to, message, end_turn) ==
    Action("travel_action", message, agent_to_talk_to, end_turn, location, NONE,
           FALSE, <<>>, NONE)

SearchAction(item_type, agent_to_talk_to, message, end_turn) ==
    Action("search_action", message, agent_to_talk_to, end_turn, NONE, item_type,
           FALSE, <<>>, NONE)

\* A proposer answer that is not JSON of any action.
Unparseable ==
    Action("unparseable", "", NONE, TRUE, NONE, NONE, FALSE, <<>>, NONE)

NoAction == Action(NONE, "", NONE, TRUE, NONE, NONE, FALSE, <<>>, NONE)

Range(seq) == {seq[i] : i \in 1..Len(seq)}

\* ------------------------------------------------- possible_next_actions

\* enum._is_sunder: a single underscore at both ends.
is_sunder(name) ==
    /\ Len(name) > 2
    /\ CharAt(name, 1) = "_"
    /\ CharAt(name, Len(name)) = "_"
    /\ CharAt(name, 2) # "_"
    /\ CharAt(name, Len(name) - 1) # "_"

\* Names the functional Enum(...) call refuses with ValueError: the empty
\* name and the reserved _sunder_ names.
invalid_member_name(name) == name = "" \/ is_sunder(name)

\* possible_next_actions raises instead of returning: one of the keys
\* `l.upper()` of the two Enum(...) calls is not a legal member name.
grammar_raises(agent) ==
    \/ \E l \in agent.known_locations : invalid_member_name(upper(l))
    \/ \E l \in Range(agent.known_agents) :
           lower(l) # lower(agent.name) /\ invalid_member_name(upper(l))

\* A grammar whose Union holds ValidTravelAction whatever the agent knows.
possible_next_actions_always_travel(agent) ==
    [available_locations |-> agent.known_locations,
     available_agents_to_talk_to |->
         {l \in Range(agent.known_agents) : lower(l) # lower(agent.name)},
     travel |-> TRUE]

\* The model built by possible_next_actions: the values of the two Enums
\* (an Enum member's value is the original string, its name the upper-cased
\* one) and whether ValidTravelAction is part of the Union.
possible_next_actions(agent) ==
    [available_locations |-> agent.known_locations,
     available_agents_to_talk_to |->
         {l \in Range(agent.known_agents) : lower(l) # lower(agent.name)},
     travel |-> Cardinality(agent.known_locations) > 1]

\* available_actions.model_validate_json(response): pydantic accepts an Enum
\* field by member VALUE, strips the message and requires one character.
model_validates(available_actions, response) ==
    /\ response.agent_to_talk_to \in available_actions.available_agents_to_talk_to
    /\ Len(strip(response.message)) >= 1
    /\ \/ /\ response.type = "travel_action"
          /\ available_actions.travel
          /\ response.location \in available_actions.available_locations
       \/ /\ response.type = "dialogue_action"
          /\ \A i \in 1..Len(response.knowledge) :
                 response.knowledge[i].of \in ItemTypes
       \/ /\ response.type = "search_action"
          /\ response.item_type \in ItemTypes

model_validate_json(available_actions, response) ==
    [response EXCEPT !.message = strip(response.message)]

\* ---------------------------------------------------- produce_next_action

\* known_location taken from the entry learnt last, not first.
known_location_of_latest(agent) ==
    LET hits == {i \in 1..Len(agent.knowledge) :
                     agent.knowledge[i].of = agent.motivation.item}
    IN  IF hits = {} THEN NONE
        ELSE lower(agent.knowledge[CHOOSE i \in hits : \A j \in hits : i >= j].location)

\* next((k.knowledge.location.lower() for k in knowledge
\*       if k.knowledge.of.item.type == sought_item_type), None)
known_location_of(agent) ==
    LET hits == {i \in 1..Len(agent.knowledge) :
                     agent.knowledge[i].of = agent.motivation.item}
    IN  IF hits = {} THEN NONE
        ELSE lower(agent.knowledge[CHOOSE i \in hits : \A j \in hits : i <= j].location)

\* The restriction lifted once the sought item is among acquired_items.
must_travel_until_acquired(agent) ==
    /\ isSeek(agent.motivation)
    /\ agent.motivation.item \notin Range(agent.acquired_items)
    /\ known_location_of(agent) # NONE
    /\ known_location_of(agent) # ""
    /\ known_location_of(agent) # agent.current_location

\* `if known_location and known_location != self.current_location`
must_travel(agent) ==
    /\ isSeek(agent.motivation)
    /\ known_location_of(agent) # NONE
    /\ known_location_of(agent) # ""
    /\ known_location_of(agent) # agent.current_location

\* The forced travel_action returned before the oracle is consulted: the
\* loop over known_agents returns at its first element.
forced_travel(agent) ==
    TravelAction(upper(known_location_of(agent)),
                 upper(agent.known_agents[1]),
                 "Going to " \o known_location_of(agent) \o " to find the "
                     \o agent.motivation.item \o ".",
                 TRUE)

proposer_bypassed(agent) == must_travel(agent) /\ Len(agent.known_agents) > 0

\* oracle_answer is what chat() would return for the prompt.
produce_next_action(agent, oracle_answer) ==
    IF proposer_bypassed(agent) THEN forced_travel(agent) ELSE oracle_answer

\* The positions of the log that `global_past_actions[-n:]` keeps.
last_entries(log, n) == {k \in 1..Len(log) : k > Len(log) - n}

\* recent_dialogue looking at the last 3 actions only.
recent_dialogue_last_three(self, log) ==
    {k \in last_entries(log, 3) :
         /\ log[k].action.type = "dialogue_action"
         /\ lower(log[k].action.agent_to_talk_to) = lower(self.name)}

\* recent_dialogue of produce_next_action, as positions of the log: the
\* dialogue actions among `global_past_actions[-5:]` addressed to the agent.
recent_dialogue(self, log) ==
    {k \in last_entries(log, 5) :
         /\ log[k].action.type = "dialogue_action"
         /\ lower(log[k].action.agent_to_talk_to) = lower(self.name)}

\* -------------------------------------------------------- validate_action

Reason(code, arg) == [code |-> code, arg |-> arg]

NoReason == Reason(NONE, "")

\* The first pre-check: the travel destination is a known location.
unknown_destination(agent, action) ==
    /\ action.type = "travel_action"
    /\ lower(action.location) \notin agent.known_locations

\* The seek pre-check without the comparison of the destination.
seek_violation_any_travel(agent, action) ==
    /\ must_travel(agent)
    /\ action.type # "travel_action"

\* The second pre-check: a seeker that knows where its item is must travel
\* there.
seek_violation(agent, action) ==
    /\ must_travel(agent)
    /\ \/ action.type # "travel_action"
       \/ lower(action.location) # known_location_of(agent)

\* The third pre-check: a dialogue must not state intentions.
intention_violation(action) ==
    /\ action.type = "dialogue_action"
    /\ states_intention(action.message)

\* What the supervisor oracle's answer parses to: a ValidationResult, or a
\* parse failure.
Verdict(parses, is_valid, reason) ==
    [parses |-> parses, is_valid |-> is_valid, reason |-> reason]

\* validate_action without its first pre-check.
validate_action_no_destination_check(agent, action, verdict) ==
    IF seek_violation(agent, action)
    THEN [is_valid |-> FALSE, oracle |-> FALSE,
          reason |-> Reason("Agent must use travel_action to move to",
                            known_location_of(agent))]
    ELSE IF intention_violation(action)
    THEN [is_valid |-> FALSE, oracle |-> FALSE,
          reason |-> Reason("Don't state intentions", "")]
    ELSE IF verdict.parses
    THEN [is_valid |-> verdict.is_valid, oracle |-> TRUE,
          reason |-> Reason("supervisor", verdict.reason)]
    ELSE [is_valid |-> FALSE, oracle |-> TRUE,
          reason |-> Reason("Error parsing supervisor response", "")]

\* validate_action whose `except` lets the action through.
validate_action_parse_error_accepts(agent, action, verdict) ==
    IF unknown_destination(agent, action)
    THEN [is_valid |-> FALSE, oracle |-> FALSE,
          reason |-> Reason("Invalid travel destination", action.location)]
    ELSE IF seek_violation(agent, action)
    THEN [is_valid |-> FALSE, oracle |-> FALSE,
          reason |-> Reason("Agent must use travel_action to move to",
                            known_location_of(agent))]
    ELSE IF intention_violation(action)
    THEN [is_valid |-> FALSE, oracle |-> FALSE,
          reason |-> Reason("Don't state intentions", "")]
    ELSE IF verdict.parses
    THEN [is_valid |-> verdict.is_valid, oracle |-> TRUE,
          reason |-> Reason("supervisor", verdict.reason)]
    ELSE [is_valid |-> TRUE, oracle |-> TRUE,
          reason |-> Reason("Error parsing supervisor response", "")]

\* (is_valid, reason) of validate_action, and whether chat() was called.
validate_action(agent, action, verdict) ==
    IF unknown_destination(agent, action)
    THEN [is_valid |-> FALSE, oracle |-> FALSE,
          reason |-> Reason("Invalid travel destination", action.location)]
    ELSE IF seek_violation(agent, action)
    THEN [is_valid |-> FALSE, oracle |-> FALSE,
          reason |-> Reason("Agent must use travel_action to move to",
                            known_location_of(agent))]
    ELSE IF intention_violation(action)
    THEN [is_valid |-> FALSE, oracle |-> FALSE,
          reason |-> Reason("Don't state intentions", "")]
    ELSE IF verdict.parses
    THEN [is_valid |-> verdict.is_valid, oracle |-> TRUE,
          reason |-> Reason("supervisor", verdict.reason)]
    ELSE [is_valid |-> FALSE, oracle |-> TRUE,
          reason |-> Reason("Error parsing supervisor response", "")]

\* --------------------------------------------------------- receive_action

has_item(items, item_type) == \E i \in 1..Len(items) : items[i] = item_type

\* meet without the `from_agent != self.name` test.
meet_anyone(self, from_agent) ==
    IF from_agent \notin Range(self.known_agents)
    THEN [self EXCEPT !.known_agents = Append(@, from_agent)]
    ELSE self

\* meet without the `from_agent not in self.known_agents` test.
meet_every_time(self, from_agent) ==
    IF from_agent # self.name
    THEN [self EXCEPT !.known_agents = Append(@, from_agent)]
    ELSE self

\* `if from_agent not in self.known_agents and from_agent != self.name`
meet(self, from_agent) ==
    IF from_agent \notin Range(self.known_agents) /\ from_agent # self.name
    THEN [self EXCEPT !.known_agents = Append(@, from_agent)]
    ELSE self

\* location_has_item without the comparison with the current location.
location_has_item_anywhere(self, item_type) ==
    \E i \in 1..Len(self.knowledge) : self.knowledge[i].of = item_type

location_has_item(self, item_type) ==
    \E i \in 1..Len(self.knowledge) :
        /\ lower(self.knowledge[i].location) = lower(self.current_location)
        /\ self.knowledge[i].of = item_type

\* receive_search without the test for an item already acquired.
receive_search_always_appends(self, action) ==
    IF location_has_item(self, action.item_type)
    THEN [self EXCEPT !.acquired_items = Append(@, action.item_type)]
    ELSE self

receive_search(self, action) ==
    IF /\ location_has_item(self, action.item_type)
       /\ ~has_item(self.acquired_items, action.item_type)
    THEN [self EXCEPT !.acquired_items = Append(@, action.item_type)]
    ELSE self

\* A receive_action that leaves the payload's location as it was written.
normalize_action_keeps_case(action) == action

\* new_knowledge.knowledge.location = new_knowledge.knowledge.location.lower()
\* is an assignment to the action object itself.
normalize_action(action) ==
    IF action.type = "dialogue_action" /\ Len(action.knowledge) > 0
    THEN [action EXCEPT !.knowledge =
              <<Knowledge(action.knowledge[1].of, lower(action.knowledge[1].location))>>]
    ELSE action

\* knowledge_exists comparing the stored item with the new location.
knowledge_exists_wrong_field(self, new_knowledge) ==
    \E i \in 1..Len(self.knowledge) :
        /\ lower(self.knowledge[i].location) = lower(new_knowledge.location)
        /\ self.knowledge[i].of = new_knowledge.location

knowledge_exists(self, new_knowledge) ==
    \E i \in 1..Len(self.knowledge) :
        /\ lower(self.knowledge[i].location) = lower(new_knowledge.location)
        /\ self.knowledge[i].of = new_knowledge.of

\* learn_knowledge keeping only the newest entry (`self.knowledge =
\* [new_knowledge]` in place of the append).
learn_knowledge_replaces(self, new_knowledge) ==
    IF knowledge_exists(self, new_knowledge) THEN self
    ELSE [self EXCEPT
            !.knowledge = <<new_knowledge>>,
            !.known_locations = @ \cup {new_knowledge.location},
            !.known_items = IF has_item(@, new_knowledge.of) THEN @
                            ELSE Append(@, new_knowledge.of)]

\* learn_knowledge that stores the entry without registering its location.
learn_knowledge_without_location(self, new_knowledge) ==
    IF knowledge_exists(self, new_knowledge) THEN self
    ELSE [self EXCEPT
            !.knowledge = Append(@, new_knowledge),
            !.known_items = IF has_item(@, new_knowledge.of) THEN @
                            ELSE Append(@, new_knowledge.of)]

learn_knowledge(self, new_knowledge) ==
    IF knowledge_exists(self, new_knowledge) THEN self
    ELSE [self EXCEPT
            !.knowledge = Append(@, new_knowledge),
            !.known_locations = @ \cup {new_knowledge.location},
            !.known_items = IF has_item(@, new_knowledge.of) THEN @
                            ELSE Append(@, new_knowledge.of)]

\* learn_desired without the `action.is_question` test.
learn_desired_of_any_dialogue(self, action) ==
    IF /\ action.knowledge_desired # NONE
       /\ action.knowledge_desired # ""
       /\ ~has_item(self.known_items, action.knowledge_desired)
       /\ action.knowledge_desired \in ItemTypes
    THEN [self EXCEPT !.known_items = Append(@, action.knowledge_desired)]
    ELSE self

\* `if action.is_question and action.knowledge_desired`
learn_desired(self, action) ==
    IF /\ action.is_question
       /\ action.knowledge_desired # NONE
       /\ action.knowledge_desired # ""
       /\ ~has_item(self.known_items, action.knowledge_desired)
       /\ action.knowledge_desired \in ItemTypes
    THEN [self EXCEPT !.known_items = Append(@, action.knowledge_desired)]
    ELSE self

receive_dialogue(self, action) ==
    LET normal == normalize_action(action)
        shared == IF Len(normal.knowledge) > 0
                  THEN learn_knowledge(self, normal.knowledge[1])
                  ELSE self
    IN  learn_desired(shared, action)

\* receive_travel moving every receiver, not only the traveller.
receive_travel_moves_all(self, action, from_agent) ==
    LET new_location == lower(action.location)
    IN  [self EXCEPT !.known_locations = @ \cup {new_location},
                     !.current_location = new_location]

\* receive_travel moving the traveller to the Enum member's name
\* (`action.location.name`) instead of its lower-cased value.
receive_travel_by_member_name(self, action, from_agent) ==
    LET new_location == lower(action.location)
        seen == [self EXCEPT !.known_locations = @ \cup {new_location}]
    IN  IF from_agent = self.name
        THEN [seen EXCEPT !.current_location = upper(action.location)]
        ELSE seen

receive_travel(self, action, from_agent) ==
    LET new_location == lower(action.location)
        seen == [self EXCEPT !.known_locations = @ \cup {new_location}]
    IN  IF from_agent = self.name
        THEN [seen EXCEPT !.current_location = new_location]
        ELSE seen

\* The receiver's state after receive_action(action_data, from_agent).
receive_action(self, action, from_agent) ==
    LET met == meet(self, from_agent)
    IN  IF action.type = "search_action" /\ from_agent = self.name
        THEN receive_search(met, action)
        ELSE IF action.type = "dialogue_action"
        THEN receive_dialogue(met, action)
        ELSE IF action.type = "travel_action"
        THEN receive_travel(met, action, from_agent)
        ELSE met

\* ------------------------------------------------------------------ bounds

\* No sub-turn is started once the global log holds MaxLog entries.
MaxLog == 4

\* ------------------------------------------------------------ oracle answers

\* The first agent the acting agent knows (whom the oracle addresses).
other(agent) == IF Len(agent.known_agents) > 0 THEN agent.known_agents[1] ELSE NONE

\* What the proposer oracle may answer to the prompt of `agent`.
ProposerAnswers(agent) ==
    {Unparseable,
     DialogueAction(agent.name, MsgPlain, FALSE, <<>>, NONE, TRUE),
     DialogueAction(other(agent), "  ", FALSE, <<>>, NONE, TRUE),
     DialogueAction(other(agent), MsgIntent, FALSE, <<>>, NONE, TRUE),
     DialogueAction(other(agent), MsgPlanToday, FALSE, <<>>, NONE, TRUE),
     DialogueAction(other(agent), MsgPlain, FALSE,
                    <<Knowledge("Sword", "Field")>>, NONE, TRUE),
     DialogueAction(other(agent), MsgPlain, FALSE,
                    <<Knowledge("Sword", "city")>>, NONE, TRUE),
     DialogueAction(other(agent), MsgPlain, FALSE,
                    <<Knowledge("Sword", "")>>, NONE, TRUE),
     TravelAction("FIELD", other(agent), MsgPlain, TRUE),
     TravelAction("city", other(agent), MsgPlain, TRUE)}
    \cup {DialogueAction(other(agent), MsgPlain, TRUE, <<>>, "Sword", e) :
              e \in BOOLEAN}
    \cup {TravelAction("field", other(agent), MsgIntent, e) : e \in BOOLEAN}
    \cup {SearchAction("Sword", other(agent), MsgPlain, e) : e \in BOOLEAN}

\* What the supervisor oracle may answer.
SupervisorVerdicts ==
    {Verdict(TRUE, TRUE, "valid"), Verdict(TRUE, FALSE, "not sensible"),
     Verdict(FALSE, FALSE, "")}

\* ------------------------------------------------------------------- main()

VARIABLES
    agents,               \* the list `agents` of main(), each an Agent
    global_past_actions,  \* the list of {agent.name: validated_action}
    agent_index,          \* position of `for agent in agents`
    turn_count,
    turn_start,           \* len(global_past_actions) when the turn began
    available_actions,    \* the model built for the current sub-turn
    rejection_reason,
    response,             \* what produce_next_action returned
    proposer_called,      \* whether that call reached chat()
    validated_action,
    supervisor_called,    \* whether validate_action reached chat()
    receiver,             \* position of `for other_agent in agents`
    pc

vars == <<agents, global_past_actions, agent_index, turn_count, turn_start,
          available_actions, rejection_reason, response, proposer_called,
          validated_action, supervisor_called, receiver, pc>>

Agent(name, known_items, known_locations, known_agents, current_location, motivation, knowledge, acquired_items) ==
    [name |-> name, known_items |-> known_items,
     known_locations |-> known_locations, known_agents |-> known_agents,
     current_location |-> current_location, motivation |-> motivation,
     knowledge |-> knowledge, acquired_items |-> acquired_items]

seeker_agent ==
    Agent("Seeker", <<"Stone", "Sword">>, {"city"}, <<"Knower">>, "city",
          SeekMotivation("Sword"), <<>>, <<>>)

knower_agent ==
    Agent("Knower", <<>>, {"city", "field"}, <<"Seeker">>, "city",
          BeHelpfulMotivation, <<Knowledge("Sword", "field")>>, <<>>)

\* `agents = [seeker_agent, knower_agent]`
Init_agents == <<seeker_agent, knower_agent>>

NoGrammar ==
    [available_locations |-> {}, available_agents_to_talk_to |-> {},
     travel |-> FALSE]

agent == agents[agent_index]

\* A turn limit that lets one action too many through.
within_turn_limit_inclusive(count) == count <= MAX_CONSECUTIVE_TURNS

\* A turn limit that stops one action early.
within_turn_limit_short(count) == count < MAX_CONSECUTIVE_TURNS - 1

\* `while turn_count < MAX_CONSECUTIVE_TURNS`
within_turn_limit(count) == count < MAX_CONSECUTIVE_TURNS

\* A scheduler that hands the next turn to the same agent again.
next_index_same_agent == agent_index

next_index == IF agent_index = Len(agents) THEN 1 ELSE agent_index + 1

Init ==
    /\ agents = Init_agents
    /\ global_past_actions = <<>>
    /\ agent_index = 1
    /\ turn_count = 0
    /\ turn_start = 0
    /\ available_actions = NoGrammar
    /\ rejection_reason = NoReason
    /\ response = NoAction
    /\ proposer_called = FALSE
    /\ validated_action = NoAction
    /\ supervisor_called = FALSE
    /\ receiver = 0
    /\ pc = "sub_turn"

\* A sub-turn that builds the grammar once and keeps it for all later
\* sub-turns and turns.
StartSubTurn_cached_grammar ==
    /\ pc = "sub_turn"
    /\ within_turn_limit(turn_count)
    /\ Len(global_past_actions) < MaxLog
    /\ ~grammar_raises(agent)
    /\ available_actions' = IF available_actions = NoGrammar
                            THEN possible_next_actions(agent)
                            ELSE available_actions
    /\ rejection_reason' = NoReason
    /\ pc' = "produce"
    /\ UNCHANGED <<agents, global_past_actions, agent_index, turn_count,
                   turn_start, response, proposer_called, validated_action,
                   supervisor_called, receiver>>

\* `available_actions = possible_next_actions(agent); rejection_reason = None`
StartSubTurn ==
    /\ pc = "sub_turn"
    /\ within_turn_limit(turn_count)
    /\ Len(global_past_actions) < MaxLog
    /\ ~grammar_raises(agent)
    /\ available_actions' = possible_next_actions(agent)
    /\ rejection_reason' = NoReason
    /\ pc' = "produce"
    /\ UNCHANGED <<agents, global_past_actions, agent_index, turn_count,
                   turn_start, response, proposer_called, validated_action,
                   supervisor_called, receiver>>

\* possible_next_actions(agent) raises: the call stands outside every `try`
\* of main(), the exception ends the process.
GrammarError ==
    /\ pc = "sub_turn"
    /\ within_turn_limit(turn_count)
    /\ Len(global_past_actions) < MaxLog
    /\ grammar_raises(agent)
    /\ pc' = "aborted"
    /\ UNCHANGED <<agents, global_past_actions, agent_index, turn_count,
                   turn_start, available_actions, rejection_reason, response,
                   proposer_called, validated_action, supervisor_called,
                   receiver>>

\* `response = agent.produce_next_action(...)`
Produce ==
    /\ pc = "produce"
    /\ \E oracle_answer \in ProposerAnswers(agent) :
           response' = produce_next_action(agent, oracle_answer)
    /\ proposer_called' = ~proposer_bypassed(agent)
    /\ pc' = "validate"
    /\ UNCHANGED <<agents, global_past_actions, agent_index, turn_count,
                   turn_start, available_actions, rejection_reason,
                   validated_action, supervisor_called, receiver>>

\* An `except` branch that also forgets the last rejection reason.
Malformed_clears_reason ==
    /\ pc = "validate"
    /\ ~model_validates(available_actions, response)
    /\ rejection_reason' = NoReason
    /\ pc' = "produce"
    /\ UNCHANGED <<agents, global_past_actions, agent_index, turn_count,
                   turn_start, available_actions, response,
                   proposer_called, validated_action, supervisor_called,
                   receiver>>

\* model_validate_json raises: `except Exception: ... continue`
Malformed ==
    /\ pc = "validate"
    /\ ~model_validates(available_actions, response)
    /\ pc' = "produce"
    /\ UNCHANGED <<agents, global_past_actions, agent_index, turn_count,
                   turn_start, available_actions, rejection_reason, response,
                   proposer_called, validated_action, supervisor_called,
                   receiver>>

\* A rejection that logs the candidate before the verdict is looked at.
Reject_after_append ==
    /\ pc = "validate"
    /\ model_validates(available_actions, response)
    /\ \E verdict \in SupervisorVerdicts :
         LET action == model_validate_json(available_actions, response)
             result == validate_action(agent, action, verdict)
         IN  /\ ~result.is_valid
             /\ supervisor_called' = result.oracle
             /\ rejection_reason' = result.reason
             /\ global_past_actions' =
                    Append(global_past_actions,
                           [agent |-> agent.name, action |-> action])
    /\ pc' = "produce"
    /\ UNCHANGED <<agents, agent_index, turn_count, turn_start,
                   available_actions, response, proposer_called,
                   validated_action, receiver>>

\* `if not is_valid: rejection_reason = reason; continue`
Reject ==
    /\ pc = "validate"
    /\ model_validates(available_actions, response)
    /\ \E verdict \in SupervisorVerdicts :
         LET action == model_validate_json(available_actions, response)
             result == validate_action(agent, action, verdict)
         IN  /\ ~result.is_valid
             /\ supervisor_called' = result.oracle
             /\ rejection_reason' = result.reason
    /\ pc' = "produce"
    /\ UNCHANGED <<agents, global_past_actions, agent_index, turn_count,
                   turn_start, available_actions, response, proposer_called,
                   validated_action, receiver>>

\* `global_past_actions.append({agent.name: validated_action})`
Accept ==
    /\ pc = "validate"
    /\ model_validates(available_actions, response)
    /\ \E verdict \in SupervisorVerdicts :
         LET action == model_validate_json(available_actions, response)
             result == validate_action(agent, action, verdict)
         IN  /\ result.is_valid
             /\ validated_action' = action
             /\ supervisor_called' = result.oracle
             /\ global_past_actions' =
                    Append(global_past_actions,
                           [agent |-> agent.name, action |-> action])
    /\ receiver' = 1
    /\ pc' = "receive"
    /\ UNCHANGED <<agents, agent_index, turn_count, turn_start,
                   available_actions, rejection_reason, response,
                   proposer_called>>

\* A broadcast loop that is left after its first iteration.
Receive_first_only ==
    /\ pc = "receive"
    /\ agents' = [agents EXCEPT ![receiver] =
                      receive_action(@, validated_action, agent.name)]
    /\ validated_action' = normalize_action(validated_action)
    /\ global_past_actions' =
           [global_past_actions EXCEPT ![Len(global_past_actions)].action =
                normalize_action(validated_action)]
    /\ receiver' = 0
    /\ pc' = "applied"
    /\ UNCHANGED <<agent_index, turn_count, turn_start, available_actions,
                   rejection_reason, response, proposer_called,
                   supervisor_called>>

\* One iteration of `for other_agent in agents:
\*     other_agent.receive_action(validated_action, agent.name)`.
\* The action object is the one the log holds: lower-casing its knowledge
\* location shows in the log entry as well.
Receive ==
    /\ pc = "receive"
    /\ agents' = [agents EXCEPT ![receiver] =
                      receive_action(@, validated_action, agent.name)]
    /\ validated_action' = normalize_action(validated_action)
    /\ global_past_actions' =
           [global_past_actions EXCEPT ![Len(global_past_actions)].action =
                normalize_action(validated_action)]
    /\ IF receiver < Len(agents)
       THEN receiver' = receiver + 1 /\ pc' = "receive"
       ELSE receiver' = 0 /\ pc' = "applied"
    /\ UNCHANGED <<agent_index, turn_count, turn_start, available_actions,
                   rejection_reason, response, proposer_called,
                   supervisor_called>>

\* The `for agent in agents` loop of `while True` moves to the next agent.
next_turn ==
    /\ agent_index' = next_index
    /\ turn_count' = 0
    /\ turn_start' = Len(global_past_actions)
    /\ pc' = "sub_turn"

\* An end_turn that leaves the retry loop only: the turn goes on.
EndTurn_leaves_retry_loop_only ==
    /\ pc = "applied"
    /\ validated_action.end_turn
    /\ turn_count' = turn_count + 1
    /\ IF within_turn_limit(turn_count + 1)
       THEN agent_index' = agent_index /\ turn_start' = turn_start
       ELSE agent_index' = next_index /\ turn_start' = Len(global_past_actions)
    /\ pc' = "sub_turn"
    /\ UNCHANGED <<agents, global_past_actions, available_actions,
                   rejection_reason, response, proposer_called,
                   validated_action, supervisor_called, receiver>>

\* `if action.end_turn: break  # exit the turn loop`
EndTurn ==
    /\ pc = "applied"
    /\ validated_action.end_turn
    /\ next_turn
    /\ UNCHANGED <<agents, global_past_actions, available_actions,
                   rejection_reason, response, proposer_called,
                   validated_action, supervisor_called, receiver>>

\* `turn_count += 1` and the `while turn_count < MAX_CONSECUTIVE_TURNS` test
\* that follows it.
ContinueTurn ==
    /\ pc = "applied"
    /\ ~validated_action.end_turn
    /\ within_turn_limit(turn_count + 1)
    /\ turn_count' = turn_count + 1
    /\ pc' = "sub_turn"
    /\ UNCHANGED <<agents, global_past_actions, agent_index, turn_start,
                   available_actions, rejection_reason, response,
                   proposer_called, validated_action, supervisor_called,
                   receiver>>

TurnLimit ==
    /\ pc = "applied"
    /\ ~validated_action.end_turn
    /\ ~within_turn_limit(turn_count + 1)
    /\ next_turn
    /\ UNCHANGED <<agents, global_past_actions, available_actions,
                   rejection_reason, response, proposer_called,
                   validated_action, supervisor_called, receiver>>

Next ==
    \/ StartSubTurn
    \/ GrammarError
    \/ Produce
    \/ Malformed
    \/ Reject
    \/ Accept
    \/ Receive
    \/ EndTurn
    \/ ContinueTurn
    \/ TurnLimit

Spec == Init /\ [][Next]_vars

\* ------------------------------------------------------------- properties

\* The log entries appended during the current turn.
turn_entries == (turn_start + 1)..Len(global_past_actions)

accepted_in_turn == Len(global_past_actions) - turn_start

\* C1: within one turn at most MAX_CONSECUTIVE_TURNS (3) actions of the
\* acting agent are appended to the global log, whatever their end_turn
\* flags and however many attempts were rejected or malformed in between.
C1_TurnBound ==
    /\ accepted_in_turn <= 3
    /\ \A i \in turn_entries : global_past_actions[i].agent = agent.name

\* A turn that reached three accepted actions, the last one after a
\* rejected attempt.
C1_Witness ==
    /\ pc = "applied"
    /\ accepted_in_turn = 3
    /\ rejection_reason # NoReason

all_continue ==
    \A i \in turn_entries : ~global_past_actions[i].action.end_turn

\* C2: a turn whose accepted actions all carry end_turn = false ends after
\* exactly three accepted actions, neither earlier nor later, and hands the
\* next proposal to the next agent of the list.
C2_ExactlyThree ==
    [][(pc = "applied" /\ all_continue) =>
          /\ (agent_index' # agent_index) <=> (accepted_in_turn = 3)
          /\ (agent_index' # agent_index) =>
                 /\ agent_index' = next_index
                 /\ pc' = "sub_turn"
                 /\ turn_count' = 0]_vars

\* The next agent is about to be asked after a turn of three actions that
\* all had end_turn = false.
C2_Witness ==
    /\ pc = "produce"
    /\ turn_start = Len(global_past_actions)
    /\ Len(global_past_actions) >= 3
    /\ \A i \in (Len(global_past_actions) - 2)..Len(global_past_actions) :
           /\ ~global_past_actions[i].action.end_turn
           /\ global_past_actions[i].agent # agent.name
    /\ (Len(global_past_actions) > 3 =>
           global_past_actions[Len(global_past_actions) - 3].agent = agent.name)

\* The sought item has a known location other than where the seeker is,
\* and the seeker knows somebody to address.
seeker_knows_elsewhere(a) ==
    /\ a.motivation.motivation_name = "Seek item"
    /\ \E i \in 1..Len(a.knowledge) :
           /\ a.knowledge[i].of = a.motivation.item
           /\ a.knowledge[i].location # a.current_location
           /\ \A j \in 1..(i - 1) : a.knowledge[j].of # a.motivation.item
    /\ Len(a.known_agents) > 0

\* The location of the seeker's first knowledge entry for the sought item.
sought_location(a) ==
    LET first == {i \in 1..Len(a.knowledge) :
                     /\ a.knowledge[i].of = a.motivation.item
                     /\ \A j \in 1..(i - 1) : a.knowledge[j].of # a.motivation.item}
    IN  IF first = {} THEN NONE
        ELSE a.knowledge[CHOOSE i \in first : TRUE].location

\* C3: for a Seek(K) agent that knows a location L for K other than its
\* current location and knows some agent, produce_next_action returns,
\* without asking the proposer oracle, a Travel whose destination is L, whose
\* addressee is one of the known agents and whose end_turn is true.
C3_ForcedTravel ==
    (pc = "validate" /\ seeker_knows_elsewhere(agent)) =>
        /\ ~proposer_called
        /\ response.type = "travel_action"
        /\ response.location = sought_location(agent)
        /\ response.agent_to_talk_to \in Range(agent.known_agents)
        /\ response.end_turn

\* The scheduling of main(): the loop always takes its next step, and the
\* supervisor oracle does not reject a candidate it is asked about forever.
FairSpec == Spec /\ WF_vars(Next) /\ SF_vars(Accept)

\* C4: a seeker that starts a sub-turn knowing its item is elsewhere (and
\* knowing another agent) eventually has its Travel there accepted: its
\* current_location becomes that location.
C4_Convergence ==
    \A i \in 1..2 :
        (/\ agent_index = i
         /\ pc = "produce"
         /\ seeker_knows_elsewhere(agents[i])
         /\ Len(global_past_actions) < MaxLog)
        ~> (agents[i].current_location = sought_location(agents[i]))

\* ------------------------------------------- validate_action, called alone

seeker_at(current_location, known_locations, knowledge) ==
    Agent("Seeker", <<"Stone", "Sword">>, known_locations, <<"Knower">>,
          current_location, SeekMotivation("Sword"), knowledge, <<>>)

\* Agent states validate_action is applied to.
ValidateAgents ==
    {seeker_agent,
     knower_agent,
     [knower_agent EXCEPT !.current_location = "field"],
     seeker_at("city", {"city", "field"}, <<Knowledge("Sword", "field")>>),
     seeker_at("field", {"city", "field"}, <<Knowledge("Sword", "field")>>),
     seeker_at("city", {"city", "field"}, <<Knowledge("Stone", "field")>>),
     seeker_at("city", {"city", "field"},
               <<Knowledge("Sword", "city"), Knowledge("Sword", "field")>>),
     seeker_at("city", {"city", "field", "cave"},
               <<Knowledge("Sword", "field"), Knowledge("Sword", "cave")>>),
     seeker_at("cave", {"city", "field", "cave"},
               <<Knowledge("Stone", "cave"), Knowledge("Sword", "field")>>)}

\* Candidates validate_action is applied to, inside and outside the grammar
\* of the agent.
ValidateCandidates ==
    UNION {
        {DialogueAction("Knower", m, FALSE, <<>>, NONE, e) :
             m \in {MsgPlain, MsgIntent, MsgIntentLower, MsgPlanToday}}
        \cup {TravelAction(l, "Knower", MsgPlain, e) :
                  l \in {"city", "field", "Field", "cave", "CAVE"}}
        \cup {SearchAction(i, "Knower", MsgPlain, e) : i \in ItemTypes}
        : e \in BOOLEAN}

ValidateInit ==
    /\ \E a \in ValidateAgents : agents = <<a>>
    /\ global_past_actions = <<>>
    /\ agent_index = 1
    /\ turn_count = 0
    /\ turn_start = 0
    /\ available_actions = NoGrammar
    /\ rejection_reason = NoReason
    /\ response = NoAction
    /\ proposer_called = FALSE
    /\ validated_action \in ValidateCandidates
    /\ supervisor_called = FALSE
    /\ receiver = 0
    /\ pc = "call"

\* is_valid, reason = supervisor.validate_action(agent, validated_action, [])
CallValidate ==
    /\ pc = "call"
    /\ \E verdict \in SupervisorVerdicts :
         LET result == validate_action(agent, validated_action, verdict)
         IN  /\ pc' = IF result.is_valid THEN "valid" ELSE "invalid"
             /\ rejection_reason' = result.reason
             /\ supervisor_called' = result.oracle
    /\ UNCHANGED <<agents, global_past_actions, agent_index, turn_count,
                   turn_start, available_actions, response, proposer_called,
                   validated_action, receiver>>

SpecValidate == ValidateInit /\ [][CallValidate]_vars

returned == pc \in {"valid", "invalid"}

\* Some knowledge entry for the sought item names a place other than the
\* seeker's location.
knows_some_elsewhere(a, L) ==
    /\ a.motivation.motivation_name = "Seek item"
    /\ \E i \in 1..Len(a.knowledge) :
           /\ a.knowledge[i].of = a.motivation.item
           /\ a.knowledge[i].location = L
    /\ L # a.current_location

travel_to(action, L) ==
    action.type = "travel_action" /\ lower(action.location) = L

names_destination(reason, L) ==
    reason = Reason("Agent must use travel_action to move to", L)

denylisted_messages == {MsgIntent, MsgIntentLower, MsgPlanToday}

intention_reason == Reason("Don't state intentions", "")

\* C6: a Travel to a destination outside the agent's known_locations is
\* rejected with the unknown-destination reason and the supervisor oracle is
\* not asked; the oracle is asked only about candidates that pass all three
\* pre-checks, and a candidate it was not asked about is never accepted.
C6_PreCheckPrecedence ==
    returned =>
        /\ (/\ validated_action.type = "travel_action"
            /\ lower(validated_action.location) \notin agent.known_locations) =>
               /\ pc = "invalid"
               /\ ~supervisor_called
               /\ rejection_reason =
                      Reason("Invalid travel destination", validated_action.location)
        /\ supervisor_called =>
               /\ validated_action.type = "travel_action" =>
                      lower(validated_action.location) \in agent.known_locations
               /\ seeker_knows_elsewhere(agent) =>
                      travel_to(validated_action, lower(sought_location(agent)))
               /\ validated_action.type = "dialogue_action" =>
                      validated_action.message \notin denylisted_messages
        /\ ~supervisor_called => pc = "invalid"

\* A helpful agent's Travel to an unknown place was rejected before the
\* oracle could be asked.
C6_Witness ==
    /\ pc = "invalid"
    /\ agent.name = "Knower"
    /\ validated_action.type = "travel_action"
    /\ validated_action.location = "CAVE"
    /\ ~supervisor_called
    /\ rejection_reason = Reason("Invalid travel destination", "CAVE")

dialogue_entries ==
    {i \in 1..Len(global_past_actions) :
         global_past_actions[i].action.type = "dialogue_action"}

\* C7: a Dialogue whose message contains a denylisted phrase, in any letter
\* case, is rejected with the state-intentions reason (the oracle is not
\* asked); a Dialogue without one is not rejected with that reason; no
\* Dialogue of the global log contains a denylisted phrase.
C7_IntentionPhrases ==
    /\ [](\A i \in dialogue_entries :
              global_past_actions[i].action.message \notin denylisted_messages)
    /\ [][(/\ pc = "validate"
           /\ model_validates(available_actions, response)
           /\ response.type = "dialogue_action") =>
              IF response.message \in denylisted_messages
              THEN /\ pc' = "produce"
                   /\ rejection_reason' = intention_reason
                   /\ ~supervisor_called'
              ELSE pc' = "produce" => rejection_reason' # intention_reason]_vars

\* The next attempt is due after a Dialogue with "plan today" was rejected
\* for stating an intention.
C7_Witness ==
    /\ pc = "produce"
    /\ response.type = "dialogue_action"
    /\ response.message = MsgPlanToday
    /\ rejection_reason = intention_reason

\* C8: once a Travel of agent A to D is accepted and delivered to everyone,
\* every agent's known_locations contains D and A is at D; delivering it
\* never changes the current_location of an agent other than A.
C8_TravelBroadcast ==
    /\ []((pc = "applied" /\ validated_action.type = "travel_action") =>
              /\ \A i \in 1..Len(agents) :
                     validated_action.location \in agents[i].known_locations
              /\ agent.current_location = validated_action.location)
    /\ [][(pc = "receive" /\ validated_action.type = "travel_action") =>
              \A i \in 1..Len(agents) :
                  i # agent_index =>
                      agents'[i].current_location = agents[i].current_location]_vars

\* Knower went to the field: Seeker, who stayed in the city, has heard of
\* the field.
C8_Witness ==
    /\ pc = "applied"
    /\ validated_action.type = "travel_action"
    /\ validated_action.location = "field"
    /\ agent.name = "Knower"
    /\ agents[1].current_location = "city"
    /\ "field" \in agents[1].known_locations
    /\ Len(agents[1].knowledge) = 0

no_duplicates(seq) ==
    \A i, j \in 1..Len(seq) : seq[i] = seq[j] => i = j

\* The receiver already holds the (item, lower-cased location) pair of the
\* payload.
already_known(a, payload) ==
    \E i \in 1..Len(a.knowledge) :
        /\ a.knowledge[i].of = payload.of
        /\ a.knowledge[i].location = lower(payload.location)

\* C9: delivering a Dialogue whose payload pair the receiver already holds
\* leaves the receiver's knowledge as it was, and no agent's knowledge ever
\* holds the same (item, location) pair twice.
C9_KnowledgeIdempotent ==
    /\ [](\A i \in 1..Len(agents) : no_duplicates(agents[i].knowledge))
    /\ [][(/\ pc = "receive"
           /\ validated_action.type = "dialogue_action"
           /\ Len(validated_action.knowledge) = 1
           /\ already_known(agents[receiver], validated_action.knowledge[1])) =>
              agents'[receiver].knowledge = agents[receiver].knowledge]_vars

\* "Sword is in Field" was delivered to everyone; Knower, who knew the
\* field from the seed, still has one entry.
C9_Witness ==
    /\ pc = "applied"
    /\ validated_action.type = "dialogue_action"
    /\ validated_action.knowledge = <<Knowledge("Sword", "field")>>
    /\ global_past_actions[Len(global_past_actions)].agent = "Knower"
    /\ agents[2].knowledge = <<Knowledge("Sword", "field")>>
    /\ agents[1].knowledge = <<Knowledge("Sword", "field")>>

\* C10: no agent ever holds two acquired items of one kind, and a Search by
\* an agent that already holds the searched kind leaves its acquired_items
\* as they were.
C10_AcquisitionIdempotent ==
    /\ [](\A i \in 1..Len(agents) : no_duplicates(agents[i].acquired_items))
    /\ [][(/\ pc = "receive"
           /\ validated_action.type = "search_action"
           /\ \E k \in 1..Len(agents[receiver].acquired_items) :
                  agents[receiver].acquired_items[k] = validated_action.item_type) =>
              agents'[receiver].acquired_items = agents[receiver].acquired_items]_vars

\* Knower searched the field for the Sword twice in a row and holds one.
C10_Witness ==
    /\ pc = "applied"
    /\ Len(global_past_actions) >= 2
    /\ \A i \in {Len(global_past_actions) - 1, Len(global_past_actions)} :
           /\ global_past_actions[i].agent = "Knower"
           /\ global_past_actions[i].action.type = "search_action"
           /\ global_past_actions[i].action.item_type = "Sword"
    /\ agents[2].current_location = "field"
    /\ agents[2].acquired_items = <<"Sword">>

\* Some past step of the run was an accepted Travel by the agent at index i:
\* the log holds a Travel entry under its name.
has_travelled(i) ==
    \E k \in 1..Len(global_past_actions) :
        /\ global_past_actions[k].agent = agents[i].name
        /\ global_past_actions[k].action.type = "travel_action"

\* C11: in every reachable state the location an agent stands at is one of
\* the locations that agent knows.
C11_LocationKnown ==
    \A i \in 1..Len(agents) :
        agents[i].current_location \in agents[i].known_locations

\* The Seeker has travelled to a location it first heard of from another
\* agent, and the broadcast of that Travel is over.
C11_Witness ==
    /\ pc = "applied"
    /\ has_travelled(1)
    /\ agents[1].current_location = "field"
    /\ agents[1].current_location # seeker_agent.current_location

\* C12: no agent's known_agents holds the agent's own name, the actor's
\* reception of its own action included.
C12_NeverKnowsItself ==
    \A i \in 1..Len(agents) :
        agents[i].name \notin Range(agents[i].known_agents)

\* Both agents have acted and each has received its own action.
C12_Witness ==
    /\ pc = "applied"
    /\ \A i \in 1..Len(agents) :
           \E k \in 1..Len(global_past_actions) :
               global_past_actions[k].agent = agents[i].name
    /\ C12_NeverKnowsItself

\* C13: a step that turns a candidate down, because it fails the grammar or
\* because validate_action rejects it, leaves the global log, every agent and
\* the turn counter as they were.
C13_RejectionFrame ==
    [][(pc = "validate" /\ pc' = "produce")
         => /\ agents' = agents
            /\ global_past_actions' = global_past_actions
            /\ turn_count' = turn_count
            /\ turn_start' = turn_start
            /\ agent_index' = agent_index]_vars

\* A supervisor rejection was followed by a malformed candidate in a turn
\* that had already logged one action.
C13_Witness ==
    /\ pc = "produce"
    /\ rejection_reason = Reason("supervisor", "not sensible")
    /\ response = Unparseable
    /\ turn_count = 1
    /\ accepted_in_turn = 1

\* The entry main() appends for the candidate under validation.
proposed_entry ==
    [agent |-> agent.name,
     action |-> model_validate_json(available_actions, response)]

\* C14: the global log changes only by one append at its end, of the entry
\* (agent whose turn it is, candidate) for a candidate that passed the grammar
\* and that validate_action accepted in the state it was proposed in; entries
\* already in the log are never modified, reordered or removed.
C14_AppendOnly ==
    [][global_past_actions' # global_past_actions
         => /\ pc = "validate"
            /\ model_validates(available_actions, response)
            /\ \E verdict \in SupervisorVerdicts :
                   validate_action(agent, proposed_entry.action, verdict).is_valid
            /\ global_past_actions' =
                   Append(global_past_actions, proposed_entry)]_vars

\* The state of an agent that started as `self` and has received, in log
\* order and once each, the first n entries of the log.
RECURSIVE replay(_, _, _)
replay(self, log, n) ==
    IF n = 0 THEN self
    ELSE receive_action(replay(self, log, n - 1), log[n].action, log[n].agent)

\* Every agent has received every logged action.
delivered_to_all ==
    \A i \in 1..Len(agents) :
        agents[i] = replay(Init_agents[i], global_past_actions,
                           Len(global_past_actions))

\* C15: a proposal is requested or validated only in states where every
\* logged action has been received by every agent, the actor included; the
\* append is followed at once by the broadcast, which hands the action to the
\* agents one after the other, each exactly once, before anything else runs.
C15_BroadcastBeforeProposal ==
    /\ [](pc \in {"produce", "validate"} => receiver = 0 /\ delivered_to_all)
    /\ [][(global_past_actions' # global_past_actions /\ pc = "validate")
             => pc' = "receive" /\ receiver' = 1 /\ agents' = agents]_vars
    /\ [][pc = "receive"
             => /\ \A i \in 1..Len(agents) :
                      agents'[i] = IF i = receiver
                                   THEN receive_action(agents[i], validated_action,
                                                       agent.name)
                                   ELSE agents[i]
                /\ IF receiver < Len(agents)
                   THEN pc' = "receive" /\ receiver' = receiver + 1
                   ELSE pc' = "applied"]_vars

\* A proposal is requested after an accepted Travel of the Knower has
\* changed both agents.
C15_Witness ==
    /\ pc = "produce"
    /\ Len(global_past_actions) > 0
    /\ global_past_actions[Len(global_past_actions)].action.type = "travel_action"
    /\ \A i \in 1..Len(agents) : agents[i] # Init_agents[i]
    /\ delivered_to_all

\* The list `old` is still there, in place, at the front of `new`.
is_prefix(old, new) ==
    /\ Len(old) <= Len(new)
    /\ \A k \in 1..Len(old) : new[k] = old[k]

\* C16: knowledge, known_locations, known_agents, known_items and
\* acquired_items of every agent only grow: no step removes or replaces an
\* element of any of them.
C16_CollectionsOnlyGrow ==
    [][\A i \in 1..Len(agents) :
         /\ is_prefix(agents[i].knowledge, agents'[i].knowledge)
         /\ agents[i].known_locations \subseteq agents'[i].known_locations
         /\ is_prefix(agents[i].known_agents, agents'[i].known_agents)
         /\ is_prefix(agents[i].known_items, agents'[i].known_items)
         /\ is_prefix(agents[i].acquired_items, agents'[i].acquired_items)]_vars

\* The Knower has learnt a second knowledge entry and an item kind and has
\* acquired an item, on top of what it was seeded with.
C16_Witness ==
    /\ pc = "applied"
    /\ Len(agents[2].knowledge) > Len(knower_agent.knowledge)
    /\ is_prefix(knower_agent.knowledge, agents[2].knowledge)
    /\ Len(agents[2].known_items) > Len(knower_agent.known_items)
    /\ Len(agents[2].acquired_items) > Len(knower_agent.acquired_items)

\* C17: the grammar of an agent that knows fewer than two locations has no
\* Travel in it, so no Travel of such an agent is ever accepted; the grammar
\* of an agent that knows two or more offers Travel with exactly the agent's
\* known_locations as destinations, and an accepted Travel names one of them.
C17_TravelNeedsTwoLocations ==
    /\ [](pc \in {"produce", "validate"}
            => /\ available_actions.travel
                    = (Cardinality(agent.known_locations) >= 2)
               /\ available_actions.available_locations = agent.known_locations)
    /\ [][(Len(global_past_actions') > Len(global_past_actions)
             /\ global_past_actions'[Len(global_past_actions')].action.type
                    = "travel_action")
            => /\ Cardinality(agent.known_locations) >= 2
               /\ global_past_actions'[Len(global_past_actions')].action.location
                      \in agent.known_locations]_vars

\* The Seeker, knowing one location only, has proposed a Travel to it and the
\* candidate has been turned down by the grammar.
C17_Witness ==
    /\ pc = "produce"
    /\ Cardinality(agent.known_locations) = 1
    /\ response.type = "travel_action"
    /\ response.location \in agent.known_locations
    /\ ~model_validates(available_actions, response)
    /\ Len(global_past_actions) = 0

\* -------------------------------------- possible_next_actions called alone

\* An agent named Seeker at `city` with the given acquaintances and locations.
acquainted(known_agents, known_locations) ==
    Agent("Seeker", <<"Stone", "Sword">>, known_locations, known_agents,
          "city", SeekMotivation("Sword"), <<>>, <<>>)

\* Agent states the grammar is built for: agents that know nobody, agents
\* that list only themselves, agents that know the Knower.
GrammarAgents ==
    {acquainted(k, l) :
         k \in {<<>>, <<"Seeker">>, <<"seeker">>, <<"Knower">>,
                <<"Seeker", "Knower">>},
         l \in {{"city"}, {"city", "field"}, {"city", ""}}}

\* JSON candidates handed to model_validate_json; NONE stands for a field
\* that is null or left out.
GrammarCandidates ==
    {Unparseable}
    \cup UNION {
        {SearchAction(i, t, MsgPlain, e) : i \in ItemTypes}
        \cup {DialogueAction(t, MsgPlain, FALSE, <<>>, NONE, e),
              DialogueAction(t, MsgPlain, TRUE, <<>>, "Sword", e),
              TravelAction("city", t, MsgPlain, e),
              TravelAction("field", t, MsgPlain, e)}
        : t \in {NONE, "", "Seeker", "Knower", "KNOWER"}, e \in BOOLEAN}

GrammarInit ==
    /\ \E a \in GrammarAgents : agents = <<a>>
    /\ global_past_actions = <<>>
    /\ agent_index = 1
    /\ turn_count = 0
    /\ turn_start = 0
    /\ available_actions = NoGrammar
    /\ rejection_reason = NoReason
    /\ response \in GrammarCandidates
    /\ proposer_called = FALSE
    /\ validated_action = NoAction
    /\ supervisor_called = FALSE
    /\ receiver = 0
    /\ pc = "call"

\* available_actions = possible_next_actions(agent)
\* validated_action = available_actions.model_validate_json(response)
CallGrammar ==
    /\ pc = "call"
    /\ IF grammar_raises(agent)
       THEN /\ available_actions' = available_actions
            /\ validated_action' = NoAction
            /\ pc' = "raised"
       ELSE /\ available_actions' = possible_next_actions(agent)
            /\ IF model_validates(available_actions', response)
               THEN /\ validated_action' =
                          model_validate_json(available_actions', response)
                    /\ pc' = "parsed"
               ELSE /\ validated_action' = NoAction
                    /\ pc' = "malformed"
    /\ UNCHANGED <<agents, global_past_actions, agent_index, turn_count,
                   turn_start, rejection_reason, response, proposer_called,
                   supervisor_called, receiver>>

SpecGrammar == GrammarInit /\ [][CallGrammar]_vars

\* The agent knows no agent other than itself.
knows_nobody(a) ==
    \A k \in 1..Len(a.known_agents) : lower(a.known_agents[k]) = lower(a.name)

\* C18: the grammar of an agent that knows no other agent offers Search and
\* only Search: some Search candidate passes model_validate_json, and no
\* Dialogue candidate does.
C18_SearchOnlyWhenAlone ==
    (pc \in {"parsed", "malformed"} /\ knows_nobody(agent))
        => /\ \E r \in GrammarCandidates :
                  /\ r.type = "search_action"
                  /\ model_validates(available_actions, r)
           /\ response.type = "dialogue_action" => pc = "malformed"

\* C19: whenever a candidate is requested or validated, the grammar in use
\* is the one possible_next_actions yields for the acting agent's state at
\* that moment, on every attempt of the retry loop.
C19_GrammarFresh ==
    pc \in {"produce", "validate"}
        => available_actions = possible_next_actions(agent)

\* A retry, after a rejection, of the Seeker in a later turn, its grammar
\* no longer the one of its first turn.
C19_Witness ==
    /\ pc = "validate"
    /\ agent_index = 1
    /\ turn_start > 0
    /\ rejection_reason # NoReason
    /\ available_actions # possible_next_actions(Init_agents[1])
    /\ available_actions = possible_next_actions(agent)

\* The agent after the acting one in the fixed list, the first after the last.
successor_in_list == (agent_index % Len(agents)) + 1

\* The step ends a turn: the next sub-turn is the first of a turn.
turn_ends == pc = "applied" /\ pc' = "sub_turn" /\ turn_count' = 0

\* C20: turns go round the fixed agent list in order: the run starts with the
\* first agent, every turn that ends hands over to the next agent of the list
\* (the first after the last) and the acting agent changes at no other step;
\* everything proposed, validated, logged or applied during a turn is the
\* acting agent's, so no agent has two turns without every other agent having
\* had one in between.
C20_RoundRobin ==
    /\ [][turn_ends => agent_index' = successor_in_list]_vars
    /\ [][agent_index' # agent_index => turn_ends]_vars
    /\ [](turn_start = 0 => agent_index = 1)
    /\ [](\A k \in turn_entries : global_past_actions[k].agent = agent.name)
    /\ [](turn_start > 0
            => global_past_actions[turn_start].agent
                   = agents[IF agent_index = 1 THEN Len(agents)
                            ELSE agent_index - 1].name)

\* The turn has come back to the first agent after the last agent's turn,
\* and the first agent is acting again.
C20_Witness ==
    /\ pc = "applied"
    /\ agent_index = 1
    /\ turn_start >= 2
    /\ global_past_actions[1].agent = agents[1].name
    /\ global_past_actions[turn_start].agent = agents[Len(agents)].name
    /\ global_past_actions[Len(global_past_actions)].agent = agents[1].name
    /\ Len(global_past_actions) > turn_start

\* The log is full: the state stops the model, not main().
log_is_full == pc = "sub_turn" /\ Len(global_past_actions) >= MaxLog

\* C21: the scheduler has no terminal or aborted state: in every reachable
\* state main() has a next step to take.
C21_NoTerminalState == log_is_full \/ ENABLED Next

\* C22: in every reachable state the location of every knowledge entry of
\* every agent is lower-case.
C22_KnowledgeLowerCase ==
    \A i \in 1..Len(agents) :
        \A k \in 1..Len(agents[i].knowledge) :
            agents[i].knowledge[k].location = lower(agents[i].knowledge[k].location)

\* The candidate shared a location written with a capital letter and every
\* agent now holds the entry.
C22_Witness ==
    /\ pc = "applied"
    /\ response.type = "dialogue_action"
    /\ Len(response.knowledge) > 0
    /\ response.knowledge[1].location # lower(response.knowledge[1].location)
    /\ \A i \in 1..Len(agents) :
           \E k \in 1..Len(agents[i].knowledge) :
               agents[i].knowledge[k] =
                   Knowledge(response.knowledge[1].of,
                             lower(response.knowledge[1].location))

parse_error_reason == Reason("Error parsing supervisor response", "")

\* C23: for a candidate that reaches the supervisor oracle, an answer that
\* does not parse makes validate_action return not valid with the parse-error
\* reason; a rejection after the oracle was asked that is not the oracle's own
\* verdict hands the proposer exactly that reason and leaves the log and the
\* agents as they were.
C23_UnparseableVerdictRejects ==
    /\ []((pc = "validate" /\ model_validates(available_actions, response))
           => \A verdict \in SupervisorVerdicts :
                LET result == validate_action(agent, proposed_entry.action, verdict)
                IN  (result.oracle /\ ~verdict.parses)
                        => ~result.is_valid /\ result.reason = parse_error_reason)
    /\ [][(/\ pc = "validate" /\ pc' = "produce"
            /\ model_validates(available_actions, response)
            /\ supervisor_called'
            /\ rejection_reason'.code # "supervisor")
            => /\ rejection_reason' = parse_error_reason
               /\ global_past_actions' = global_past_actions
               /\ agents' = agents]_vars

\* The supervisor's answer to the Knower's second candidate of a later turn
\* did not parse, and the proposer is about to be asked again.
C23_Witness ==
    /\ pc = "produce"
    /\ rejection_reason = parse_error_reason
    /\ supervisor_called
    /\ agent_index = 2
    /\ Len(global_past_actions) = turn_start
    /\ turn_start > 0

\* C24: the reason handed to the proposer is absent at the first attempt of
\* every sub-turn; a rejection by validate_action replaces it with the reason
\* validate_action returned; a malformed response leaves it as it was; no
\* other step touches it.
C24_ReasonThreading ==
    /\ [][(pc = "sub_turn" /\ pc' = "produce")
            => rejection_reason' = NoReason]_vars
    /\ [][(pc = "validate" /\ pc' = "produce"
              /\ model_validates(available_actions, response))
            => \E verdict \in SupervisorVerdicts :
                 LET result == validate_action(agent, proposed_entry.action, verdict)
                 IN  ~result.is_valid /\ rejection_reason' = result.reason]_vars
    /\ [][(pc = "validate" /\ ~model_validates(available_actions, response))
            => rejection_reason' = rejection_reason /\ pc' = "produce"]_vars
    /\ [][rejection_reason' # rejection_reason
            => pc \in {"sub_turn", "validate"}]_vars
    /\ [](pc = "produce" /\ response = NoAction => rejection_reason = NoReason)

\* The Knower's dialogue was rejected for stating an intention, its next
\* answer was malformed, and the proposer is asked again with the reason of
\* the rejection.
C24_Witness ==
    /\ pc = "produce"
    /\ agent_index = 2
    /\ rejection_reason = Reason("Don't state intentions", "")
    /\ ~model_validates(available_actions, response)

\* The action accepted last, as the log holds it.
last_logged == global_past_actions[Len(global_past_actions)].action

\* The next proposal is the same agent's, in the same turn.
same_agent_goes_on ==
    /\ agent_index' = agent_index
    /\ turn_start' = turn_start
    /\ pc' = "sub_turn"

\* The next proposal opens a turn of the next agent of the list.
next_agent_starts ==
    /\ agent_index' = successor_in_list
    /\ turn_start' = Len(global_past_actions)
    /\ turn_count' = 0
    /\ pc' = "sub_turn"

\* C25: once an accepted action has been applied, end_turn = true hands the
\* next proposal to the next agent whatever was done in the turn before;
\* end_turn = false hands it to the same agent if fewer than
\* MAX_CONSECUTIVE_TURNS actions were accepted in the turn, to the next agent
\* otherwise.
C25_EndTurn ==
    [][pc = "applied"
         => IF last_logged.end_turn THEN next_agent_starts
            ELSE IF accepted_in_turn < MAX_CONSECUTIVE_TURNS
            THEN same_agent_goes_on
            ELSE next_agent_starts]_vars

\* The Seeker ended its turn with its second action and the turn is the
\* Knower's.
C25_Witness ==
    /\ pc = "sub_turn"
    /\ agent_index = 2
    /\ turn_count = 0
    /\ turn_start = 2
    /\ Len(global_past_actions) = 2
    /\ ~global_past_actions[1].action.end_turn
    /\ last_logged.end_turn
    /\ global_past_actions[1].agent = "Seeker" /\ global_past_actions[2].agent = "Seeker"

\* The candidate under validation is the forced Travel: produce_next_action
\* returned before asking the oracle.
forced_candidate == pc = "validate" /\ ~proposer_called

\* The acting agent's Travel has been accepted and broadcast.
travel_performed ==
    /\ pc = "applied"
    /\ last_logged.type = "travel_action"
    /\ global_past_actions[Len(global_past_actions)].agent = agent.name

knowledge_shared ==
    /\ pc = "applied"
    /\ last_logged.type = "dialogue_action"
    /\ Len(last_logged.knowledge) > 0

\* The payload of the Dialogue accepted last, its location lower-cased.
shared_entry ==
    Knowledge(last_logged.knowledge[1].of, lower(last_logged.knowledge[1].location))

holds_entry(a, entry) == \E k \in 1..Len(a.knowledge) : a.knowledge[k] = entry

\* The agent at index i as it was before the action accepted last reached it.
before_last(i) ==
    replay(Init_agents[i], global_past_actions, Len(global_past_actions) - 1)

\* C27: after a Dialogue carrying (K, L) has been accepted and
\* broadcast, every agent has the entry (K, lower-case L) in knowledge,
\* lower-case L in known_locations and K in known_items.
C27_AllLearnEverything ==
    knowledge_shared
        => \A i \in 1..Len(agents) :
             /\ holds_entry(agents[i], shared_entry)
             /\ shared_entry.location \in agents[i].known_locations
             /\ has_item(agents[i].known_items, shared_entry.of)

\* A Search has been accepted and broadcast.
search_performed == pc = "applied" /\ last_logged.type = "search_action"

\* The agent knows the item kind to be where it stands and does not hold it.
finds(a, item_type) ==
    /\ holds_entry(a, Knowledge(item_type, a.current_location))
    /\ ~has_item(a.acquired_items, item_type)

\* C28: an accepted Search for K adds K to the actor's acquired_items if and
\* only if the actor's knowledge holds (K, actor's current_location) and the
\* actor does not hold K yet; it changes nobody's knowledge, known_locations
\* or current_location, and no other agent's acquired_items.
C28_SearchAcquisition ==
    search_performed
        => \A i \in 1..Len(agents) :
             /\ agents[i].acquired_items =
                    IF i = agent_index /\ finds(before_last(i), last_logged.item_type)
                    THEN Append(before_last(i).acquired_items, last_logged.item_type)
                    ELSE before_last(i).acquired_items
             /\ agents[i].knowledge = before_last(i).knowledge
             /\ agents[i].known_locations = before_last(i).known_locations
             /\ agents[i].current_location = before_last(i).current_location

\* The Knower, having travelled to the field, has searched there and found
\* the Sword its knowledge places in the field.
C28_Witness ==
    /\ search_performed
    /\ agent_index = 2
    /\ agents[2].current_location = "field"
    /\ finds(before_last(2), "Sword")
    /\ has_item(agents[2].acquired_items, "Sword")
    /\ agents[1].acquired_items = <<>>

\* ------------------------------------------------ receive_action called alone

\* Number of actions delivered to the receiver.
MaxReceive == 3

\* Receivers named Seeker that know nobody, or one agent that never acts;
\* one of them has heard of no item kind yet.
ReceiveAgents ==
    {acquainted(k, {"city"}) : k \in {<<>>, <<"Guide">>}}
    \cup {[acquainted(<<>>, {"city"}) EXCEPT !.known_items = <<>>]}

\* Who performed the action delivered.
ReceiveFrom == {"Seeker", "Knower", "Trader"}

\* Accepted actions delivered to the receiver, one of each kind.
ReceiveActions ==
    {DialogueAction("Seeker", MsgPlain, FALSE, <<>>, NONE, TRUE),
     DialogueAction("Seeker", MsgPlain, TRUE, <<>>, "Sword", TRUE),
     DialogueAction("Seeker", MsgPlain, TRUE, <<>>, NONE, TRUE),
     DialogueAction("Seeker", MsgPlain, FALSE, <<>>, "Sword", TRUE),
     DialogueAction("Seeker", MsgPlain, TRUE, <<>>, "Shield", TRUE),
     TravelAction("field", "Seeker", MsgPlain, TRUE),
     SearchAction("Sword", "Seeker", MsgPlain, TRUE)}

ReceiveInit ==
    /\ \E a \in ReceiveAgents : agents = <<a>>
    /\ global_past_actions = <<>>
    /\ agent_index = 1
    /\ turn_count = 0
    /\ turn_start = 0
    /\ available_actions = NoGrammar
    /\ rejection_reason = NoReason
    /\ response = NoAction
    /\ proposer_called = FALSE
    /\ validated_action = NoAction
    /\ supervisor_called = FALSE
    /\ receiver = 1
    /\ pc = "receive"

\* other_agent.receive_action(validated_action, agent.name), the receiver's
\* share of one broadcast; the log keeps who acted.
CallReceive ==
    /\ pc = "receive"
    /\ Len(global_past_actions) < MaxReceive
    /\ \E from_agent \in ReceiveFrom, action \in ReceiveActions :
         /\ agents' = [agents EXCEPT ![receiver] =
                           receive_action(@, action, from_agent)]
         /\ validated_action' = action
         /\ global_past_actions' =
                Append(global_past_actions,
                       [agent |-> from_agent, action |-> action])
    /\ UNCHANGED <<agent_index, turn_count, turn_start, available_actions,
                   rejection_reason, response, proposer_called,
                   supervisor_called, receiver, pc>>

SpecReceive == ReceiveInit /\ [][CallReceive]_vars

\* How often the name stands in the list.
occurrences(names, name) ==
    Cardinality({j \in 1..Len(names) : names[j] = name})

\* C29: once an action of agent A, of any kind, has been delivered to an
\* agent other than A, A's name is in that agent's known_agents, and it is
\* there exactly once however many of A's actions were delivered.
C29_ActorKnownOnce ==
    \A k \in 1..Len(global_past_actions) :
        global_past_actions[k].agent # agents[receiver].name
            => occurrences(agents[receiver].known_agents,
                           global_past_actions[k].agent) = 1

\* A receiver that knew nobody has received two actions of the Knower.
C29_Witness ==
    /\ Len(global_past_actions) = 2
    /\ global_past_actions[1].agent = "Knower"
    /\ global_past_actions[2].agent = "Knower"
    /\ agents[receiver].known_agents = <<"Knower">>

\* The step delivers a Dialogue without knowledge payload.
dialogue_delivered ==
    /\ global_past_actions' # global_past_actions
    /\ validated_action'.type = "dialogue_action"
    /\ Len(validated_action'.knowledge) = 0

\* The Dialogue asks about an item kind.
asks_about_item(action) ==
    action.is_question /\ action.knowledge_desired \in ItemTypes

\* C30: a delivered Dialogue with is_question = true and knowledge_desired an
\* item kind K puts K into the receiver's known_items, once and only if it is
\* not there yet, and adds no knowledge entry and no known location; a
\* Dialogue that is no question or names no item kind leaves known_items as
\* they were.
C30_KnowledgeDesired ==
    [][dialogue_delivered
         => /\ agents'[receiver].known_items =
                  IF /\ asks_about_item(validated_action')
                     /\ ~has_item(agents[receiver].known_items,
                                  validated_action'.knowledge_desired)
                  THEN Append(agents[receiver].known_items,
                              validated_action'.knowledge_desired)
                  ELSE agents[receiver].known_items
            /\ agents'[receiver].knowledge = agents[receiver].knowledge
            /\ agents'[receiver].known_locations
                  = agents[receiver].known_locations]_vars

\* A receiver that had heard of no item kind has been asked about the Sword
\* twice and lists it once.
C30_Witness ==
    /\ Len(global_past_actions) = 2
    /\ \A k \in 1..2 :
           /\ global_past_actions[k].action.type = "dialogue_action"
           /\ asks_about_item(global_past_actions[k].action)
           /\ global_past_actions[k].action.knowledge_desired = "Sword"
    /\ agents[receiver].known_items = <<"Sword">>
    /\ agents[receiver].knowledge = <<>>

\* The three deterministic pre-checks of validate_action let the action
\* through to the supervisor oracle.
passes_pre_checks(a, action) ==
    /\ ~unknown_destination(a, action)
    /\ ~seek_violation(a, action)
    /\ ~intention_violation(action)

\* C31: whenever produce_next_action returns the forced Travel, the grammar
\* built for the same agent state accepts it (its destination is a legal
\* destination value, its addressee a legal agent value) and the three
\* pre-checks of validate_action pass it.
C31_ForcedTravelAgreed ==
    forced_candidate
        => /\ response.location \in available_actions.available_locations
           /\ response.agent_to_talk_to
                  \in available_actions.available_agents_to_talk_to
           /\ model_validates(available_actions, response)
           /\ passes_pre_checks(agent, response)

\* ------------------------------------------- main() with a talkative oracle

\* No sub-turn is started once the global log holds MaxTalk entries.
MaxTalk == 7

\* What the proposer oracle may answer when it only talks or searches.
TalkAnswers(a) ==
    {Unparseable, SearchAction("Stone", other(a), MsgPlain, FALSE)}
    \cup {DialogueAction(other(a), MsgPlain, FALSE, <<>>, NONE, e) :
              e \in BOOLEAN}

\* `available_actions = possible_next_actions(agent); rejection_reason = None`
StartSubTurnTalk ==
    /\ pc = "sub_turn"
    /\ within_turn_limit(turn_count)
    /\ Len(global_past_actions) < MaxTalk
    /\ ~grammar_raises(agent)
    /\ available_actions' = possible_next_actions(agent)
    /\ rejection_reason' = NoReason
    /\ pc' = "produce"
    /\ UNCHANGED <<agents, global_past_actions, agent_index, turn_count,
                   turn_start, response, proposer_called, validated_action,
                   supervisor_called, receiver>>

\* `response = agent.produce_next_action(...)`
ProduceTalk ==
    /\ pc = "produce"
    /\ \E oracle_answer \in TalkAnswers(agent) :
           response' = produce_next_action(agent, oracle_answer)
    /\ proposer_called' = ~proposer_bypassed(agent)
    /\ pc' = "validate"
    /\ UNCHANGED <<agents, global_past_actions, agent_index, turn_count,
                   turn_start, available_actions, rejection_reason,
                   validated_action, supervisor_called, receiver>>

NextTalk ==
    \/ StartSubTurnTalk
    \/ ProduceTalk
    \/ Malformed
    \/ Reject
    \/ Accept
    \/ Receive
    \/ EndTurn
    \/ ContinueTurn
    \/ TurnLimit

SpecTalk == Init /\ [][NextTalk]_vars

\* The log entries of the turn before the current one: with two agents, the
\* run of the other agent's entries that ends where the current turn starts.
preceding_turn_entries ==
    {k \in 1..turn_start :
         \A j \in k..turn_start : global_past_actions[j].agent # agent.name}

addressed_to(k, a) ==
    /\ global_past_actions[k].action.type = "dialogue_action"
    /\ lower(global_past_actions[k].action.agent_to_talk_to) = lower(a.name)

\* C32: at every proposal of an agent's turn, the second and third sub-turn
\* included, every Dialogue addressed to it that the other agent had accepted
\* in the turn just before is among the last 5 log entries and so in the
\* agent's recent_dialogue.
C32_DialogueWindow ==
    pc = "produce"
        => \A k \in preceding_turn_entries :
             addressed_to(k, agent)
                 => k \in recent_dialogue(agent, global_past_actions)

\* The Seeker's third proposal of a turn that follows three Dialogues of the
\* Knower: the window holds exactly these and the Seeker's two actions, and
\* the first log entry has dropped out of it.
C32_Witness ==
    /\ pc = "produce"
    /\ agent_index = 1
    /\ turn_count = 2
    /\ Len(global_past_actions) = 6
    /\ preceding_turn_entries = {2, 3, 4}
    /\ \A k \in preceding_turn_entries : addressed_to(k, agent)
    /\ recent_dialogue(agent, global_past_actions) = {2, 3, 4}
    /\ 1 \notin last_entries(global_past_actions, 5)

\* C33: in every reachable state the location of every knowledge entry of
\* every agent is one of that agent's known_locations.
C33_KnowledgeLocationsKnown ==
    \A i \in 1..Len(agents) :
        \A k \in 1..Len(agents[i].knowledge) :
            agents[i].knowledge[k].location \in agents[i].known_locations

\* The Seeker has just been told of a location it did not know, and holds
\* both the entry and the location.
C33_Witness ==
    /\ knowledge_shared
    /\ shared_entry.location \notin before_last(1).known_locations
    /\ holds_entry(agents[1], shared_entry)
    /\ shared_entry.location \in agents[1].known_locations

\* The agent seeks an item for which its knowledge holds several locations.
knows_several_places(a) ==
    /\ isSeek(a.motivation)
    /\ Cardinality({a.knowledge[k].location :
                        k \in {j \in 1..Len(a.knowledge) :
                                   a.knowledge[j].of = a.motivation.item}}) > 1

\* C34: for a Seek(K) agent that holds several locations for K, the
\* destination the override and the seek pre-check require is the location of
\* the entry for K inserted first; the agent is restricted exactly when it
\* stands elsewhere than that first location, wherever its later entries
\* point; and the first location of an agent never changes once it has one.
C34_FirstEntryDecides ==
    /\ []((pc \in {"produce", "validate"} /\ knows_several_places(agent))
           => LET first == lower(sought_location(agent))
                  restricted == first # agent.current_location
              IN  /\ proposer_bypassed(agent) = restricted
                  /\ forced_candidate => lower(response.location) = first
                  /\ \A action \in ValidateCandidates :
                         seek_violation(agent, action)
                             = (restricted /\ ~travel_to(action, first)))
    /\ [][\A i \in 1..Len(agents) :
             (isSeek(agents[i].motivation)
              /\ sought_location(agents[i]) # NONE)
                 => sought_location(agents'[i]) = sought_location(agents[i])]_vars

\* The Seeker stands at the place its second entry names and is sent back
\* to the place its first entry names.
C34_Witness ==
    /\ forced_candidate
    /\ knows_several_places(agent)
    /\ Len(agent.knowledge) = 2
    /\ agent.current_location = agent.knowledge[2].location
    /\ agent.current_location # agent.knowledge[1].location
    /\ lower(response.location) = agent.knowledge[1].location

MaxSearch == 5

\* What the proposer oracle may answer when the agents tell each other where
\* things are, search and walk to the field.
SearchAnswers(a) ==
    {SearchAction("Sword", other(a), MsgPlain, FALSE),
     TravelAction("field", other(a), MsgPlain, FALSE)}
    \cup {DialogueAction(other(a), MsgPlain, FALSE, <<k>>, NONE, e) :
              k \in {Knowledge("Sword", "city"), Knowledge("Stone", "field")},
              e \in BOOLEAN}

\* `available_actions = possible_next_actions(agent); rejection_reason = None`
StartSubTurnSearch ==
    /\ pc = "sub_turn"
    /\ within_turn_limit(turn_count)
    /\ Len(global_past_actions) < MaxSearch
    /\ ~grammar_raises(agent)
    /\ available_actions' = possible_next_actions(agent)
    /\ rejection_reason' = NoReason
    /\ pc' = "produce"
    /\ UNCHANGED <<agents, global_past_actions, agent_index, turn_count,
                   turn_start, response, proposer_called, validated_action,
                   supervisor_called, receiver>>

\* `response = agent.produce_next_action(...)`
ProduceSearch ==
    /\ pc = "produce"
    /\ \E oracle_answer \in SearchAnswers(agent) :
           response' = produce_next_action(agent, oracle_answer)
    /\ proposer_called' = ~proposer_bypassed(agent)
    /\ pc' = "validate"
    /\ UNCHANGED <<agents, global_past_actions, agent_index, turn_count,
                   turn_start, available_actions, rejection_reason,
                   validated_action, supervisor_called, receiver>>

NextSearch ==
    \/ StartSubTurnSearch
    \/ ProduceSearch
    \/ Malformed
    \/ Reject
    \/ Accept
    \/ Receive
    \/ EndTurn
    \/ ContinueTurn
    \/ TurnLimit

SpecSearch == Init /\ [][NextSearch]_vars

\* The agent seeks an item it already holds and knows it to be elsewhere.
holds_sought_elsewhere(a) ==
    /\ isSeek(a.motivation)
    /\ has_item(a.acquired_items, a.motivation.item)
    /\ sought_location(a) \notin {NONE, ""}
    /\ lower(sought_location(a)) # a.current_location

\* C35: a Seek(K) agent that already holds K and stands elsewhere than its
\* known location L for K is still restricted to Travel(L): the override
\* replaces its proposal by a travel to L and the seek pre-check refuses every
\* candidate but a travel to L; and a step that changes an agent's
\* acquired_items changes neither whether it is restricted nor L.
C35_HoldingDoesNotLift ==
    /\ []((pc \in {"produce", "validate"} /\ holds_sought_elsewhere(agent))
           => LET L == lower(sought_location(agent))
              IN  /\ proposer_bypassed(agent)
                  /\ pc = "validate"
                         => /\ forced_candidate
                            /\ response.type = "travel_action"
                            /\ lower(response.location) = L
                  /\ \A action \in ValidateCandidates :
                         seek_violation(agent, action) = ~travel_to(action, L))
    /\ [][\A i \in 1..Len(agents) :
             (isSeek(agents[i].motivation)
              /\ agents'[i].acquired_items # agents[i].acquired_items)
                 => /\ must_travel(agents'[i]) = must_travel(agents[i])
                    /\ sought_location(agents'[i]) = sought_location(agents[i])]_vars

\* The Seeker found the Sword in the city, walked to the field and is sent
\* back to the city.
C35_Witness ==
    /\ forced_candidate
    /\ holds_sought_elsewhere(agent)
    /\ agent.acquired_items = <<"Sword">>
    /\ agent.current_location = "field"
    /\ lower(response.location) = "city"

====
